---- MODULE Spec2Model ----
(***************************************************************************)
(* The depot container engine (depot/src/depot_handle.rs): one DepotHandle *)
(* over one seekable byte handle.  The byte handle is a sequence of bytes  *)
(* with a position; header, payload frames and TOC are laid out in it byte *)
(* for byte as the serializers write them.                                 *)
(*                                                                         *)
(* Widths.  u64 values of the program are modelled by naturals below 2^31; *)
(* the one larger value the program itself creates, !0, is AllOnes.  The   *)
(* 8 KiB buffers and the SeaHash/zstd libraries are scaled down: see       *)
(* ScratchLen, ReadAhead, FrameSizeDefault, hash, Compress.                *)
(***************************************************************************)
EXTENDS Integers, Sequences, FiniteSets, TLC

\* ------------------------------------------------------------ bounds
\* Length of the foreign bytes in front of an embedded depot.
PrefixLen == 4
\* Append calls (add_file / add_named_sized_stream) over one run.
MaxAdds == 2
\* extract_stream calls over one run.
MaxExtracts == 1
\* Setter calls (set_comp_level, set_mt_threads, set_comp_frame_size)
\* over one run.
MaxSets == 1
\* Successful or failed opens (DepotHandle::new) over one run.
MaxOpens == 1
\* Scaled stand-in for the 8192-byte scratch buffer of extract_stream.
ScratchLen == 2
\* Scaled stand-in for the block the decoder's buffered reader pulls from
\* the byte handle at a time.
ReadAhead == 4
\* Scaled stand-in for the default compression_frame_size (8192).
FrameSizeDefault == 3

\* ------------------------------------------------------------ inputs
\* Entry names, as UTF-8 byte strings ("a", "b", "c").
Names == {<<97>>, <<98>>, <<99>>}
\* Source streams: contents of the reader handed to an append; the first
\* grows under compression, the second shrinks.
Payloads == {<<1>>, <<2, 2, 2, 2, 2, 2>>}
\* (name, contents, size argument) triples handed to
\* add_named_sized_stream: the size is the caller's and need not be the
\* length of the contents (the last triple).
StreamInputs ==
  {<<(<<97>>), (<<1>>), 1>>, <<(<<98>>), (<<2, 2, 2, 2, 2, 2>>), 6>>,
   <<(<<99>>), (<<1>>), 1>>, <<(<<97>>), (<<1>>), 2>>}
\* (path, file contents) pairs handed to add_file.
FileInputs == {<<(<<97>>), (<<1>>)>>, <<(<<99>>), (<<>>)>>}
\* What add_file finds at the path.
PathKinds == {"file", "dir", "missing", "other"}
Levels == {3}
Threads == {4}
FrameSizes == {0}
\* Local timezone offsets (seconds east of UTC) the clock may report.
TzOffsets == {0 - 3600, 3600}
OpenModes == {"Read", "Write", "ReadWrite"}

\* ------------------------------------------------------------ integers
\* !0 as u64: the only value outside the modelled range that the program
\* writes itself.
AllOnes == 0 - 1
\* Any other 64-bit value outside the modelled range.
TooBig == 63 * 16777216 + 16777215

Min(a, b) == IF a < b THEN a ELSE b
Max(a, b) == IF a < b THEN b ELSE a

\* n-byte big-endian two's complement of v (write_u64::<BigEndian> and kin).
BE(v, n) ==
  [i \in 1..n |->
     LET e == n - i IN
       IF e >= 4 THEN (IF v < 0 THEN 255 ELSE 0)
       ELSE (v \div (256^e)) % 256]

\* read_u64::<BigEndian> of 8 bytes.
U64Of(b) ==
  IF \A i \in 1..8 : b[i] = 255 THEN AllOnes
  ELSE IF (\E i \in 1..4 : b[i] # 0) \/ b[5] >= 128 THEN TooBig
  ELSE b[5] * 16777216 + b[6] * 65536 + b[7] * 256 + b[8]

\* 4 bytes big-endian as i32.
I32Of(b) ==
  (IF b[1] >= 128 THEN b[1] - 256 ELSE b[1]) * 16777216
    + b[2] * 65536 + b[3] * 256 + b[4]

U16Of(b) == b[1] * 256 + b[2]

\* ------------------------------------------------------------ byte handle
\* Write bytes at offset p (0-based), growing the handle; a gap is zeros.
WriteAt(d, p, bytes) ==
  [i \in 1..Max(Len(d), p + Len(bytes)) |->
     IF i > p /\ i <= p + Len(bytes) THEN bytes[i - p]
     ELSE IF i <= Len(d) THEN d[i] ELSE 0]

\* read_exact of n bytes at p succeeds iff they are all there.
CanRead(d, p, n) == p >= 0 /\ p <= Len(d) /\ n <= Len(d) /\ p + n <= Len(d)
ReadAt(d, p, n) == SubSeq(d, p + 1, p + n)

\* ------------------------------------------------------------ helpers.rs
\* TsWithTz::to_u64, as the 8 bytes write_u64::<BigEndian> then emits:
\* (ts as u64) << 32 | (tz as u64), where `tz as u64` sign-extends.
to_u64(t) ==
  [i \in 1..8 |->
     IF i <= 4 THEN (IF t.tz < 0 THEN 255 ELSE BE(t.ts, 4)[i])
     ELSE BE(t.tz, 4)[i - 4]]

\* TsWithTz::from_u64 of the 8 bytes read.
from_u64(b) ==
  [ts |-> I32Of(SubSeq(b, 1, 4)), tz |-> I32Of(SubSeq(b, 5, 8))]

\* The 64-bit content hash (SeaHash), scaled to 24 bits: a seeded
\* positional fold, so that different short contents hash differently.
RECURSIVE hash(_)
hash(s) ==
  IF s = <<>> THEN 1
  ELSE (hash(SubSeq(s, 1, Len(s) - 1)) * 5 + s[Len(s)] + 1) % 16777216

\* ------------------------------------------------------------ lib.rs
\* MAGIC = ascii_to_u64_be(b"DEPOTARC"), as written big-endian.
MAGIC == <<68, 69, 80, 79, 84, 65, 82, 67>>

\* ------------------------------------------------------------ entities
\* DepotHeader::ser: magic, version (u16), toc_offset (u64): 18 bytes.
HeaderSer(h) == MAGIC \o BE(h.version, 2) \o BE(h.toc_offset, 8)

\* EntryInfo::ser: seven big-endian 64-bit words, 56 bytes.
EntrySer(e) ==
  BE(e.offset, 8) \o BE(e.size, 8) \o BE(e.stream_size, 8) \o BE(e.flags, 8)
    \o to_u64(e.create_ts) \o to_u64(e.mod_ts) \o BE(e.hash, 8)

\* EntryInfo::de of 56 bytes.
EntryDe(b) ==
  [offset |-> U64Of(SubSeq(b, 1, 8)),
   size |-> U64Of(SubSeq(b, 9, 16)),
   stream_size |-> U64Of(SubSeq(b, 17, 24)),
   flags |-> U64Of(SubSeq(b, 25, 32)),
   create_ts |-> from_u64(SubSeq(b, 33, 40)),
   mod_ts |-> from_u64(SubSeq(b, 41, 48)),
   hash |-> U64Of(SubSeq(b, 49, 56))]

\* Byte-string order of the BTreeMap<String, _> keys.
RECURSIVE NameLess(_, _)
NameLess(a, b) ==
  IF a = <<>> THEN b # <<>>
  ELSE IF b = <<>> THEN FALSE
  ELSE IF a[1] # b[1] THEN a[1] < b[1]
  ELSE NameLess(Tail(a), Tail(b))

\* BTreeMap::iter: the keys in ascending order.
RECURSIVE SortedKeys(_)
SortedKeys(S) ==
  IF S = {} THEN <<>>
  ELSE LET m == CHOOSE x \in S : \A y \in S \ {x} : NameLess(x, y)
       IN <<m>> \o SortedKeys(S \ {m})

\* write_lpstr(LP32, BigEndian, name)
LpStr(name) == BE(Len(name), 4) \o name

RECURSIVE RecordsSer(_, _)
RecordsSer(entries, keys) ==
  IF keys = <<>> THEN <<>>
  ELSE LpStr(keys[1]) \o EntrySer(entries[keys[1]])
         \o RecordsSer(entries, Tail(keys))

\* A TOC writer that walks the map from its last key to its first.
TocSerDescending(t) ==
  LET keys == SortedKeys(DOMAIN t.entries) IN
    BE(t.compression_level, 4) \o BE(t.entry_count, 8) \o BE(t.size, 8)
      \o RecordsSer(t.entries,
                    [i \in 1..Len(keys) |-> keys[Len(keys) + 1 - i]])

\* DepotToc::ser: the preamble, then one record per key of the map.
TocSer(t) ==
  BE(t.compression_level, 4) \o BE(t.entry_count, 8) \o BE(t.size, 8)
    \o RecordsSer(t.entries, SortedKeys(DOMAIN t.entries))

\* A map insert that forgets the entries it held.
MapInsertAlone(entries, key, e) == [k \in {key} |-> e]

\* BTreeMap::insert: a new key is added, an existing key's value replaced.
MapInsert(entries, key, e) ==
  [k \in (DOMAIN entries) \cup {key} |-> IF k = key THEN e ELSE entries[k]]

EmptyMap == [k \in {} |-> 0]

\* The loop of DepotToc::de: `left` more records from offset p on.  None
\* when a read falls short.
RECURSIVE RecordsDe(_, _, _, _)
RecordsDe(d, p, left, acc) ==
  IF left = 0 THEN [ok |-> TRUE, entries |-> acc, end |-> p]
  ELSE IF ~CanRead(d, p, 4) THEN [ok |-> FALSE]
  ELSE LET n == I32Of(ReadAt(d, p, 4)) IN
    IF n < 0 \/ n > Len(d) \/ ~CanRead(d, p + 4, n + 56) THEN [ok |-> FALSE]
    ELSE RecordsDe(d, p + 4 + n + 56, left - 1,
                   MapInsert(acc, ReadAt(d, p + 4, n),
                             EntryDe(ReadAt(d, p + 4 + n, 56))))

\* A TOC reader that takes a TOC it cannot read for an empty one.
TocDeOrEmpty(d, p) ==
  IF ~CanRead(d, p, 20)
  THEN [ok |-> TRUE, end |-> Len(d),
        toc |-> [compression_level |-> 0, entry_count |-> 0, size |-> 0,
                 entries |-> EmptyMap]]
  ELSE LET count == U64Of(ReadAt(d, p + 4, 8))
           r == RecordsDe(d, p + 20, IF count < 0 THEN TooBig ELSE count,
                          EmptyMap)
       IN IF ~r.ok THEN [ok |-> FALSE]
          ELSE [ok |-> TRUE, end |-> r.end,
                toc |-> [compression_level |-> I32Of(ReadAt(d, p, 4)),
                         entry_count |-> count,
                         size |-> U64Of(ReadAt(d, p + 12, 8)),
                         entries |-> r.entries]]

\* DepotToc::de at offset p.
TocDe(d, p) ==
  IF ~CanRead(d, p, 20) THEN [ok |-> FALSE]
  ELSE LET count == U64Of(ReadAt(d, p + 4, 8))
           r == RecordsDe(d, p + 20, IF count < 0 THEN TooBig ELSE count,
                          EmptyMap)
       IN IF ~r.ok THEN [ok |-> FALSE]
          ELSE [ok |-> TRUE, end |-> r.end,
                toc |-> [compression_level |-> I32Of(ReadAt(d, p, 4)),
                         entry_count |-> count,
                         size |-> U64Of(ReadAt(d, p + 12, 8)),
                         entries |-> r.entries]]

\* A header reader that does not compare the magic.
HeaderDeAnyMagic(d, p) ==
  IF ~CanRead(d, p, 18) THEN [res |-> "UnexpectedEof"]
  ELSE [res |-> "Ok",
        header |-> [version |-> U16Of(ReadAt(d, p + 8, 2)),
                    toc_offset |-> U64Of(ReadAt(d, p + 10, 8))]]

\* DepotHeader::de at offset p.
HeaderDe(d, p) ==
  IF ~CanRead(d, p, 8) THEN [res |-> "UnexpectedEof"]
  ELSE IF ReadAt(d, p, 8) # MAGIC THEN [res |-> "InvalidData"]
  ELSE IF ~CanRead(d, p, 18) THEN [res |-> "UnexpectedEof"]
  ELSE [res |-> "Ok",
        header |-> [version |-> U16Of(ReadAt(d, p + 8, 2)),
                    toc_offset |-> U64Of(ReadAt(d, p + 10, 8))]]

\* ------------------------------------------------------------ compression
\* The block compressor is modelled as run-length coding in a checksummed,
\* self-delimiting frame: <<ZMAGIC, nruns, (count, byte)*, checksum>>.
\* Repetitive contents shrink, short ones grow, as with zstd.
ZMAGIC == 40

\* The frame checksum (include_checksum(true)).
RECURSIVE Checksum(_)
Checksum(s) ==
  IF s = <<>> THEN 0
  ELSE (Checksum(SubSeq(s, 1, Len(s) - 1)) * 3 + s[Len(s)]) % 251

RECURSIVE Runs(_)
Runs(s) ==
  IF s = <<>> THEN <<>>
  ELSE LET rest == Runs(Tail(s)) IN
    IF rest # <<>> /\ rest[1][2] = Head(s)
    THEN <<(<<rest[1][1] + 1, Head(s)>>)>> \o Tail(rest)
    ELSE <<(<<1, Head(s)>>)>> \o rest

\* Encoder: everything written to it, as one finished frame.
Compress(s) ==
  LET r == Runs(s) IN
    <<ZMAGIC, Len(r)>>
      \o [i \in 1..(2 * Len(r)) |-> r[(i + 1) \div 2][((i - 1) % 2) + 1]]
      \o <<Checksum(s)>>

RECURSIVE Expand(_, _, _)
Expand(d, q, n) ==
  IF n = 0 THEN <<>>
  ELSE [i \in 1..d[q + 1] |-> d[q + 2]] \o Expand(d, q + 2, n - 1)

\* Decoder: the frame that starts at offset p, if one does.
FrameAt(d, p) ==
  IF ~CanRead(d, p, 2) \/ d[p + 1] # ZMAGIC THEN [ok |-> FALSE]
  ELSE LET end == p + 2 + 2 * d[p + 2] + 1 IN
    IF end > Len(d) THEN [ok |-> FALSE]
    ELSE LET data == Expand(d, p + 2, d[p + 2]) IN
      [ok |-> TRUE, data |-> data, end |-> end,
       sumok |-> d[end] = Checksum(data)]

\* ------------------------------------------------------------ extract loop
\* The first n bytes of s, and the rest.
Take(s, n) == SubSeq(s, 1, Min(n, Len(s)))
Drop(s, n) == SubSeq(s, Min(n, Len(s)) + 1, Len(s))

\* What the decoder hands out of one frame before it reports an error: all
\* of it when the checksum matches, otherwise all but the last buffer-full
\* (the checksum is verified in the call that would return the last one).
Deliverable(f) ==
  IF f.sumok THEN f.data
  ELSE Take(f.data, ScratchLen * ((Len(f.data) - 1) \div ScratchLen))

\* The `while let Ok(n) = decompressor.read(&mut buf)` loop of
\* extract_stream.  The decoder decodes frame after frame from offset p on
\* (zstd's stream decoder goes on to the next frame unless told
\* single_frame); each read returns at most ScratchLen bytes of one frame.
\* pend: decoded bytes of the current frame not yet returned; more: whether
\* the decoder can go on after them; read/out/hashed: the loop's counters,
\* the bytes written to the writer and the bytes fed to the hasher; upto:
\* how far into the handle the decoder had to look.  err: whether the loop
\* ended because a read of the decoder returned an error.
RECURSIVE ExtractLoop(_, _, _, _, _, _, _, _, _)
ExtractLoop(d, p, pend, more, read, out, hashed, size, upto) ==
  IF pend # <<>> THEN
    LET chunk == Take(pend, ScratchLen)
        n == Len(chunk)
    IN IF read + n > size
       THEN [out |-> out \o Take(chunk, size - read), hashed |-> hashed,
             upto |-> upto, err |-> FALSE]
       ELSE ExtractLoop(d, p, Drop(pend, ScratchLen), more, read + n,
                        out \o chunk, hashed \o chunk, size, upto)
  ELSE IF ~more
  THEN [out |-> out, hashed |-> hashed, upto |-> upto, err |-> TRUE]
  ELSE LET f == FrameAt(d, p) IN
    IF ~f.ok
    THEN [out |-> out, hashed |-> hashed,
          upto |-> IF CanRead(d, p, 1) /\ d[p + 1] # ZMAGIC
                   THEN p + 1 ELSE Max(upto, Len(d)),
          err |-> p < Len(d)]
    ELSE ExtractLoop(d, f.end, Deliverable(f), f.sumok, read, out, hashed,
                     size, f.end)

\* Where the byte handle stands once the decoder that started at `offset`
\* has looked at everything before `upto`: it pulls ReadAhead bytes at a
\* time and stops short only at the end of the handle.
PositionAfterRead(d, offset, upto) ==
  IF offset >= Len(d) THEN offset
  ELSE Min(Len(d),
           offset + ReadAhead * ((Max(upto, offset + 1) - offset
                                    + ReadAhead - 1) \div ReadAhead))

\* The reader loop of add_named_sized_stream: blocks of frame_size bytes
\* until a read returns 0; the bytes that reached the compressor.
RECURSIVE FedBytes(_, _)
FedBytes(data, frame_size) ==
  LET n == Min(frame_size, Len(data)) IN
    IF n = 0 THEN <<>>
    ELSE Take(data, n) \o FedBytes(Drop(data, n), frame_size)

\* ------------------------------------------------------------ state
VARIABLES
  disk,       \* the bytes of the byte handle
  pos,        \* the byte handle's position
  writable,   \* whether the byte handle accepts writes
  phase,      \* "blank": no handle yet; "live": a DepotHandle owns the
              \* byte handle; "closed": the DepotHandle is gone
  mode,       \* DepotHandle.mode
  header_offset,
  header,     \* DepotMetadata.header
  toc,        \* DepotMetadata.toc
  mt_threads,
  compression_frame_size,
  last,       \* the last create/new/append/extract/close/drop call: its
              \* name, its result, what it delivered, and which read of
              \* the call returned an error, if one did ("source",
              \* "decoder", "rewind", "none")
  written,    \* per name, the last append under that name: source bytes,
              \* handle position before and after, sequence number
  base,       \* where the byte handle stood when the run began
  tz,         \* the local timezone offset TsWithTz::now reports
  clock,      \* seconds TsWithTz::now reports; one tick per append
  nadds, nextracts, nopens, nsets   \* calls made so far, by kind

vars ==
  <<disk, pos, writable, phase, mode, header_offset, header, toc,
    mt_threads, compression_frame_size, last, written, base, tz, clock,
    nadds, nextracts, nopens, nsets>>

Call(op, res, name) ==
  [op |-> op, res |-> res, name |-> name, out |-> <<>>,
   before |-> 0, after |-> 0, fault |-> "none"]

\* TsWithTz::now
now == [ts |-> clock, tz |-> tz]

\* Default for DepotToc
DefaultToc ==
  [compression_level |-> 0, entry_count |-> 0, size |-> 0,
   entries |-> EmptyMap]

Init ==
  /\ base \in {0, PrefixLen}
  /\ disk = [i \in 1..base |-> 170]
  /\ pos = base
  /\ writable = TRUE
  /\ phase = "blank"
  /\ mode = "ReadWrite"
  /\ header_offset = 0
  /\ header = [version |-> 1, toc_offset |-> AllOnes]
  /\ toc = DefaultToc
  /\ mt_threads = 1
  /\ compression_frame_size = FrameSizeDefault
  /\ last = Call("none", "Ok", <<>>)
  /\ written = EmptyMap
  /\ tz \in TzOffsets
  /\ clock = 1
  /\ nadds = 0
  /\ nextracts = 0
  /\ nopens = 0
  /\ nsets = 0

\* ------------------------------------------------------------ DepotHandle
\* DepotHandle::create on the byte handle as it stands.
create ==
  /\ phase = "blank"
  /\ LET h == [version |-> 1, toc_offset |-> AllOnes] IN
       /\ header' = h
       /\ disk' = WriteAt(disk, pos, HeaderSer(h))
       /\ pos' = pos + Len(HeaderSer(h))
  /\ header_offset' = pos
  /\ toc' = DefaultToc
  /\ mode' = "ReadWrite"
  /\ mt_threads' = 1
  /\ compression_frame_size' = FrameSizeDefault
  /\ phase' = "live"
  /\ last' = Call("create", "Ok", <<>>)
  /\ UNCHANGED <<writable, written, base, tz, clock, nadds, nextracts,
                 nopens, nsets>>

\* DepotHandle::new(handle, mode) on a handle positioned at `at`;
\* w: whether that handle accepts writes (open_file opens the file
\* read-only for OpenMode::Read).
new(m, at, w) ==
  /\ phase \in {"blank", "closed"}
  /\ nopens' = nopens + 1
  /\ LET h == HeaderDe(disk, at)
         t == IF h.res = "Ok" THEN TocDe(disk, h.header.toc_offset)
              ELSE [ok |-> FALSE]
     IN IF h.res = "Ok" /\ t.ok
        THEN /\ header' = h.header
             /\ toc' = t.toc
             /\ pos' = t.end
             /\ mode' = m
             /\ writable' = w
             /\ header_offset' = at
             /\ mt_threads' = 1
             /\ compression_frame_size' = FrameSizeDefault
             /\ phase' = "live"
             /\ last' = [Call("new", "Ok", <<>>) EXCEPT !.before = at]
        ELSE /\ last' = [Call("new",
                              IF h.res = "Ok" THEN "UnexpectedEof" ELSE h.res,
                              <<>>) EXCEPT !.before = at]
             /\ UNCHANGED <<header, toc, pos, mode, writable, header_offset,
                            mt_threads, compression_frame_size, phase>>
  /\ UNCHANGED <<disk, written, base, tz, clock, nadds, nextracts, nsets>>

set_comp_level(level) ==
  /\ phase = "live"
  /\ nsets' = nsets + 1
  /\ toc' = [toc EXCEPT !.compression_level = level]
  /\ UNCHANGED <<last, disk, pos, writable, phase, mode, header_offset, header,
                 mt_threads, compression_frame_size, written, base, tz,
                 clock, nadds, nextracts, nopens>>

set_mt_threads(threads) ==
  /\ phase = "live"
  /\ nsets' = nsets + 1
  /\ mt_threads' = threads
  /\ UNCHANGED <<last, disk, pos, writable, phase, mode, header_offset, header,
                 toc, compression_frame_size, written, base, tz, clock,
                 nadds, nextracts, nopens>>

set_comp_frame_size(size) ==
  /\ phase = "live"
  /\ nsets' = nsets + 1
  /\ compression_frame_size' = size
  /\ UNCHANGED <<last, disk, pos, writable, phase, mode, header_offset, header,
                 toc, mt_threads, written, base, tz, clock, nadds,
                 nextracts, nopens>>

\* An EntryInfo whose offset is that of the header.
NewEntryAtHeader(before, size, writen, h, ts) ==
  [offset |-> header_offset, size |-> size, stream_size |-> writen,
   flags |-> 0, create_ts |-> ts, mod_ts |-> ts, hash |-> h]

\* An EntryInfo whose offset is taken after the source has been fed.
NewEntryOffsetAfterFeed(before, size, writen, h, ts) ==
  [offset |-> before + writen, size |-> size, stream_size |-> writen,
   flags |-> 0, create_ts |-> ts, mod_ts |-> ts, hash |-> h]

\* The EntryInfo add_named_sized_stream records: `writen` counts the bytes
\* handed to the compressor.
NewEntry(before, size, writen, h, ts) ==
  [offset |-> before, size |-> size, stream_size |-> writen, flags |-> 0,
   create_ts |-> ts, mod_ts |-> ts, hash |-> h]

\* An EntryInfo for a zero-length file without the empty flag.
EmptyEntryUnflagged(before, ts) ==
  [offset |-> before, size |-> 0, stream_size |-> 0, flags |-> 0,
   create_ts |-> ts, mod_ts |-> ts, hash |-> AllOnes]

\* The EntryInfo add_file records for a zero-length file.
EmptyEntry(before, ts) ==
  [offset |-> before, size |-> 0, stream_size |-> 0, flags |-> 1,
   create_ts |-> ts, mod_ts |-> ts, hash |-> AllOnes]

\* The TOC after add_named_sized_stream has recorded an entry.
TocAfterAppend(t, name, entry, size) ==
  [t EXCEPT !.entries = MapInsert(@, name, entry),
            !.entry_count = @ + 1,
            !.size = @ + size]

\* The TOC after add_file has recorded an empty entry.
TocAfterEmpty(t, name, entry) ==
  [t EXCEPT !.entries = MapInsert(@, name, entry),
            !.entry_count = @ + 1]

\* Whether add_file lets a call through in this mode.
AddFileAllowed(m) == m # "Read"

\* Whether add_named_sized_stream lets a call through in this mode: it
\* does not look at the mode.
AddStreamAllowed(m) == TRUE

\* The body of add_named_sized_stream, called as `op`, on a reader that
\* holds `data`; got: the bytes the first pass reads before a read returns
\* 0 or an error; fault: "source" when it was an error, else "none".  The
\* second pass (seek to the start, hash) reads all of `data`.
AppendStreamReading(op, name, data, got, fault, size) ==
  IF ~AddStreamAllowed(mode)
  THEN /\ last' = Call(op, "PermissionDenied", name)
       /\ UNCHANGED <<disk, pos, toc, written, clock>>
  ELSE IF ~writable
  THEN \* the compressor's first write to the handle fails
       /\ last' = Call(op, "Other", name)
       /\ UNCHANGED <<disk, pos, toc, written, clock>>
  ELSE LET before == pos
           fed == FedBytes(got, compression_frame_size)
           frame == Compress(fed)
           after == before + Len(frame)
           entry == NewEntry(before, size, Len(fed), hash(data), now)
       IN /\ disk' = WriteAt(disk, before, frame)
          /\ pos' = after
          /\ toc' = TocAfterAppend(toc, name, entry, size)
          /\ written' = MapInsert(written, name,
                                  [data |-> data, before |-> before,
                                   after |-> after, seq |-> nadds + 1])
          /\ last' = [Call(op, "Ok", name) EXCEPT !.before = before,
                                                  !.after = after,
                                                  !.fault = fault]
          /\ clock' = clock + 1

\* The body of add_named_sized_stream on a reader whose reads all succeed.
AppendStream(op, name, data, size) ==
  AppendStreamReading(op, name, data, data, "none", size)

\* add_named_sized_stream on a reader that holds `data` and whose read
\* returns an error once, after k bytes have been read.
add_named_sized_stream_read_error(name, data, size, k) ==
  /\ phase = "live"
  /\ k < Len(data)
  /\ compression_frame_size > 0
  /\ nadds' = nadds + 1
  /\ AppendStreamReading("add_named_sized_stream", name, data,
                         Take(data, k), "source", size)
  /\ UNCHANGED <<writable, phase, mode, header_offset, header, mt_threads,
                 compression_frame_size, base, tz, nextracts, nopens, nsets>>

\* A call whose TOC updates do not wait for the rewind of the source.
TocAfterCallEager(t, name, entry, size, failed) ==
  TocAfterAppend(t, name, entry, size)

\* The TOC after a call of add_named_sized_stream: the three updates are
\* the last statements of the call, behind every `?`, so a call that
\* returns an error has made none of them.
TocAfterCall(t, name, entry, size, failed) ==
  IF failed THEN t ELSE TocAfterAppend(t, name, entry, size)

\* add_named_sized_stream on a reader that holds `data` and whose seek
\* back to its start fails: the frame has been written by then.
add_named_sized_stream_seek_error(name, data, size) ==
  /\ phase = "live"
  /\ nadds' = nadds + 1
  /\ IF ~writable
     THEN /\ last' = Call("add_named_sized_stream", "Other", name)
          /\ UNCHANGED <<disk, pos, toc>>
     ELSE LET before == pos
              fed == FedBytes(data, compression_frame_size)
              frame == Compress(fed)
              after == before + Len(frame)
              entry == NewEntry(before, size, Len(fed), hash(data), now)
          IN /\ disk' = WriteAt(disk, before, frame)
             /\ pos' = after
             /\ toc' = TocAfterCall(toc, name, entry, size, TRUE)
             /\ last' = [Call("add_named_sized_stream", "Other", name)
                           EXCEPT !.before = before, !.after = after,
                                  !.fault = "rewind"]
  /\ UNCHANGED <<writable, phase, mode, header_offset, header, mt_threads,
                 compression_frame_size, written, base, tz, clock,
                 nextracts, nopens, nsets>>

add_named_sized_stream(name, data, size) ==
  /\ phase = "live"
  /\ nadds' = nadds + 1
  /\ AppendStream("add_named_sized_stream", name, data, size)
  /\ UNCHANGED <<writable, phase, mode, header_offset, header, mt_threads,
                 compression_frame_size, base, tz, nextracts, nopens, nsets>>

\* add_file on a path that is a regular file holding `data`.
add_file(name, data) ==
  /\ phase = "live"
  /\ nadds' = nadds + 1
  /\ IF ~AddFileAllowed(mode)
     THEN /\ last' = Call("add_file", "PermissionDenied", name)
          /\ UNCHANGED <<disk, pos, toc, written, clock>>
     ELSE IF Len(data) = 0
     THEN IF ~writable
          THEN /\ last' = Call("add_file", "Other", name)
               /\ UNCHANGED <<disk, pos, toc, written, clock>>
          ELSE LET before == pos
                   entry == EmptyEntry(before, now)
                   after == before + Len(EntrySer(entry))
               IN /\ disk' = WriteAt(disk, before, EntrySer(entry))
                  /\ pos' = after
                  /\ toc' = TocAfterEmpty(toc, name, entry)
                  /\ written' = MapInsert(written, name,
                                          [data |-> data, before |-> before,
                                           after |-> after,
                                           seq |-> nadds + 1])
                  /\ last' = [Call("add_file", "Ok", name)
                                EXCEPT !.before = before, !.after = after]
                  /\ clock' = clock + 1
     ELSE AppendStream("add_file", name, data, Len(data))
  /\ UNCHANGED <<writable, phase, mode, header_offset, header, mt_threads,
                 compression_frame_size, base, tz, nextracts, nopens, nsets>>

\* add_file on a path that is not a regular file.
add_file_rejected(name, kind) ==
  /\ phase = "live"
  /\ kind # "file"
  /\ nadds' = nadds + 1
  /\ last' = Call("add_file",
                  IF ~AddFileAllowed(mode) THEN "PermissionDenied"
                  ELSE IF kind = "dir" THEN "InvalidInput"
                  ELSE IF kind = "missing" THEN "NotFound"
                  ELSE "InvalidInput",
                  name)
  /\ UNCHANGED <<disk, pos, writable, phase, mode, header_offset, header,
                 toc, mt_threads, compression_frame_size, written, base, tz,
                 clock, nextracts, nopens, nsets>>

\* get_named_stream hands out a copy of the entry, or None; the handle is
\* left as it is.
get_named_stream(name) ==
  /\ phase = "live"
  /\ UNCHANGED vars

\* Whether extract_stream takes the entry for an empty one.
IsEmptyEntry(entry) == entry.flags = 1

\* extract_stream's verdict on what the loop delivered and hashed.
ExtractResult(entry, out, hashed) ==
  IF Len(out) # entry.size THEN "InvalidData"
  ELSE IF hash(hashed) # entry.hash THEN "InvalidData"
  ELSE "Ok"

\* extract_stream of the StreamInfo get_named_stream returns for `name`,
\* into a fresh writer.
extract_stream(name) ==
  /\ phase = "live"
  /\ name \in DOMAIN toc.entries
  /\ nextracts' = nextracts + 1
  /\ LET entry == toc.entries[name] IN
       IF IsEmptyEntry(entry)
       THEN /\ last' = Call("extract_stream", "Ok", name)
            /\ pos' = pos
       ELSE LET r == ExtractLoop(disk, entry.offset, <<>>, TRUE, 0, <<>>,
                                 <<>>, entry.size, entry.offset)
            IN /\ last' = [Call("extract_stream",
                                ExtractResult(entry, r.out, r.hashed), name)
                             EXCEPT !.out = r.out,
                                    !.fault = IF r.err THEN "decoder"
                                              ELSE "none"]
               /\ pos' = PositionAfterRead(disk, entry.offset, r.upto)
  /\ UNCHANGED <<disk, writable, phase, mode, header_offset, header, toc,
                 mt_threads, compression_frame_size, written, base, tz,
                 clock, nadds, nopens, nsets>>

\* A finalize that does not seek back: the header goes where the handle
\* stands once the TOC is written.
HeaderRewriteAfterToc(h_off) == Len(disk) + Len(TocSer(toc))

\* Where finalize seeks before it rewrites the header.
HeaderRewriteAt(h_off) == 0

\* close: finalize, then the handle is gone.
close ==
  /\ phase = "live"
  /\ phase' = "closed"
  /\ IF ~writable
     THEN /\ pos' = Len(disk)
          /\ last' = Call("close", "Other", <<>>)
          /\ UNCHANGED <<disk, header>>
     ELSE LET toc_offset == Len(disk)
              h == [header EXCEPT !.toc_offset = toc_offset]
              at == HeaderRewriteAt(header_offset)
          IN /\ disk' = WriteAt(WriteAt(disk, toc_offset, TocSer(toc)),
                                at, HeaderSer(h))
             /\ header' = h
             /\ pos' = at + Len(HeaderSer(h))
             /\ last' = [Call("close", "Ok", <<>>)
                           EXCEPT !.before = toc_offset,
                                  !.after = toc_offset + Len(TocSer(toc))]
  /\ UNCHANGED <<writable, mode, header_offset, toc, mt_threads,
                 compression_frame_size, written, base, tz, clock, nadds,
                 nextracts, nopens, nsets>>

\* The handle is dropped without close: nothing is written.
drop ==
  /\ phase = "live"
  /\ phase' = "closed"
  /\ last' = Call("drop", "Ok", <<>>)
  /\ UNCHANGED <<disk, pos, writable, mode, header_offset, header, toc,
                 mt_threads, compression_frame_size, written, base, tz,
                 clock, nadds, nextracts, nopens, nsets>>

\* flush: the byte handle's flush; nothing the model holds changes.
flush ==
  /\ phase = "live"
  /\ UNCHANGED vars

Next ==
  \/ create
  \/ /\ nopens < MaxOpens
     /\ \E m \in OpenModes, at \in {0, base}, w \in BOOLEAN :
          (m # "Read" => w) /\ new(m, at, w)
  \/ nsets < MaxSets /\ \E l \in Levels : set_comp_level(l)
  \/ nsets < MaxSets /\ \E n \in Threads : set_mt_threads(n)
  \/ nsets < MaxSets /\ \E f \in FrameSizes : set_comp_frame_size(f)
  \/ /\ nadds < MaxAdds
     /\ \E in \in StreamInputs : add_named_sized_stream(in[1], in[2], in[3])
  \/ /\ nadds < MaxAdds
     /\ \E in \in FileInputs : add_file(in[1], in[2])
  \/ /\ nadds < MaxAdds
     /\ \E kind \in PathKinds : add_file_rejected(<<100>>, kind)
  \/ \E name \in Names : get_named_stream(name)
  \/ /\ nextracts < MaxExtracts
     /\ \E name \in Names : extract_stream(name)
  \/ close
  \/ drop
  \/ flush

Spec == Init /\ [][Next]_vars

\* One handle from create on, never closed: setters, appends (names may
\* repeat), lookups, extractions and flush, in any order.
NextHandle ==
  \/ create
  \/ nsets < MaxSets /\ \E l \in Levels : set_comp_level(l)
  \/ nsets < MaxSets /\ \E n \in Threads : set_mt_threads(n)
  \/ nsets < MaxSets /\ \E f \in FrameSizes : set_comp_frame_size(f)
  \/ /\ nadds < MaxAdds
     /\ \E in \in StreamInputs : add_named_sized_stream(in[1], in[2], in[3])
  \/ /\ nadds < MaxAdds
     /\ \E in \in FileInputs : add_file(in[1], in[2])
  \/ \E name \in Names : get_named_stream(name)
  \/ /\ nextracts < MaxExtracts
     /\ \E name \in Names : extract_stream(name)
  \/ flush

SpecHandle == Init /\ [][NextHandle]_vars

\* ------------------------------------------------------------ round trip
\* Source streams of the round trip: single bytes, a run longer than the
\* scratch buffer and the read block, mixed runs, and bytes that look like
\* a frame header.
RoundTripPayloads ==
  {<<1>>, <<2, 2, 2, 2, 2, 2>>, <<1, 2, 2, 3>>, <<40, 0, 40>>}

\* create; add_named_sized_stream of (name, bytes, length of bytes) under
\* names not used before; close; open on the same bytes from their start
\* (as open_file and open_memory do); extract_stream of the names.
NextRoundTrip ==
  \/ create
  \/ /\ nadds < MaxAdds
     /\ nopens = 0
     /\ \E name \in Names, data \in RoundTripPayloads :
          /\ name \notin DOMAIN toc.entries
          /\ add_named_sized_stream(name, data, Len(data))
  \/ nopens = 0 /\ close
  \/ /\ nopens < MaxOpens
     /\ phase = "closed"
     /\ \E m \in OpenModes, w \in BOOLEAN : (m # "Read" => w) /\ new(m, 0, w)
  \/ /\ nextracts < MaxExtracts
     /\ nopens > 0
     /\ \E name \in Names : extract_stream(name)

SpecRoundTrip == Init /\ [][NextRoundTrip]_vars

\* C1: after create, appends of (name, bytes) pairs with distinct names
\* and size = length, close and reopen, the reopen succeeds, the reopened
\* TOC holds exactly the appended names, and extract_stream of a name
\* succeeds and delivers exactly the bytes appended under it.
RoundTrip ==
  /\ last.op = "new" => last.res = "Ok"
  /\ (phase = "live" /\ nopens > 0) => DOMAIN toc.entries = DOMAIN written
  /\ (last.op = "extract_stream" /\ nopens > 0) =>
       /\ last.res = "Ok"
       /\ last.out = written[last.name].data

\* C1 happens: a depot of two entries written behind a foreign prefix is
\* reopened and the entry appended first, six bytes long, is extracted.
RoundTripReached ==
  /\ base = PrefixLen
  /\ nopens > 0
  /\ Cardinality(DOMAIN toc.entries) = 2
  /\ last.op = "extract_stream"
  /\ last.res = "Ok"
  /\ last.out = <<2, 2, 2, 2, 2, 2>>
  /\ written[last.name].seq = 1

\* ------------------------------------------------------------ appends
\* The two append operations, as `last.op` names them.
Appends == {"add_file", "add_named_sized_stream"}

\* C2: the entry add_named_sized_stream has just recorded carries
\* stream_size = after - before, the length of its frame on the handle.
StreamSizeIsFrameLength ==
  (last.op = "add_named_sized_stream" /\ last.res = "Ok") =>
    toc.entries[last.name].stream_size = last.after - last.before

\* C3: once close has succeeded on a handle whose header is at
\* header_offset, the header found there carries the toc_offset at which
\* the TOC was serialized, that TOC reads back as the handle's, and the
\* bytes in front of header_offset are the ones that were there.
FinalizeRewritesHeaderInPlace ==
  (last.op = "close" /\ last.res = "Ok") =>
    /\ HeaderDe(disk, header_offset) =
         [res |-> "Ok",
          header |-> [version |-> header.version, toc_offset |-> last.before]]
    /\ \A i \in 1..header_offset : disk[i] = 170

\* ------------------------------------------------------------ TOC counters
\* C6: while a handle lives, entry_count is the number of entries of the
\* name-keyed map.
EntryCountIsMapSize ==
  phase = "live" => toc.entry_count = Cardinality(DOMAIN toc.entries)

\* The sum of the size fields of the non-empty entries of a map.
RECURSIVE SizeSum(_, _)
SizeSum(entries, keys) ==
  IF keys = {} THEN 0
  ELSE LET k == CHOOSE x \in keys : TRUE IN
    (IF entries[k].flags = 0 THEN entries[k].size ELSE 0)
      + SizeSum(entries, keys \ {k})

\* C7: while a handle lives, the TOC's size is the sum of the sizes of the
\* non-empty entries of the name-keyed map.
TocSizeIsSumOfSizes ==
  phase = "live" => toc.size = SizeSum(toc.entries, DOMAIN toc.entries)

\* C8: once close has succeeded, every entry of the TOC ends at or before
\* the toc_offset written into the header: offset + stream_size <=
\* toc_offset.
EntriesEndBeforeToc ==
  (last.op = "close" /\ last.res = "Ok") =>
    \A n \in DOMAIN toc.entries :
      toc.entries[n].offset + toc.entries[n].stream_size <= header.toc_offset

\* ------------------------------------------------------------ extraction
\* C9: extract_stream of a non-empty entry succeeds only if the bytes it
\* delivered to the writer number entry.size and hash to entry.hash.
ExtractOkOnlyIfDeliveredVerifies ==
  (/\ last.op = "extract_stream"
   /\ last.res = "Ok"
   /\ ~IsEmptyEntry(toc.entries[last.name])) =>
    /\ Len(last.out) = toc.entries[last.name].size
    /\ hash(last.out) = toc.entries[last.name].hash

\* ------------------------------------------------------------ modes
\* C10: an append made through a handle in Read mode fails with
\* PermissionDenied and leaves the handle's bytes and the TOC as they were.
ReadModeAppendDenied ==
  [][(phase = "live" /\ mode = "Read" /\ nadds' = nadds + 1) =>
       (/\ last'.op \in Appends
        /\ last'.res = "PermissionDenied"
        /\ disk' = disk
        /\ toc' = toc)]_vars

\* ------------------------------------------------------------ payload layout
\* Appends over one run of the layout specification.
MaxAppends == 4

\* (name, contents, size) triples whose size is the length of the
\* contents, under four names ("a", "b", "c", "d").
SizedStreams ==
  {<<(<<97>>), (<<1>>), 1>>, <<(<<98>>), (<<2, 2, 2, 2, 2, 2>>), 6>>,
   <<(<<99>>), (<<1>>), 1>>, <<(<<100>>), (<<2, 2, 2, 2, 2, 2>>), 6>>}

\* One handle from create on: appends of sized streams and of files,
\* lookups and extractions, in any order.
NextAppends ==
  \/ create
  \/ /\ nadds < MaxAppends
     /\ \E in \in SizedStreams : add_named_sized_stream(in[1], in[2], in[3])
  \/ /\ nadds < MaxAppends
     /\ \E in \in FileInputs : add_file(in[1], in[2])
  \/ \E name \in Names : get_named_stream(name)
  \/ /\ nextracts < MaxExtracts
     /\ \E name \in Names : extract_stream(name)

SpecAppends == Init /\ [][NextAppends]_vars

\* C4: on a live writable handle the payload regions [offset, end) of the
\* non-empty entries are laid out in the order of their appends: an entry
\* appended later starts at or after the end of every entry appended
\* earlier (so no two regions overlap).
PayloadRegionsInAppendOrder ==
  (phase = "live" /\ writable) =>
    \A n1 \in DOMAIN toc.entries, n2 \in DOMAIN toc.entries :
      (/\ ~IsEmptyEntry(toc.entries[n1])
       /\ ~IsEmptyEntry(toc.entries[n2])
       /\ written[n1].seq < written[n2].seq) =>
        written[n1].after <= toc.entries[n2].offset

\* ------------------------------------------------------------ immutability
\* C5, as stated: no step of a live handle changes or removes the
\* EntryInfo the TOC holds for a name.
EntriesNeverChange ==
  [][phase = "live" =>
       \A n \in DOMAIN toc.entries :
         /\ n \in DOMAIN toc'.entries
         /\ toc'.entries[n] = toc.entries[n]]_vars

\* C5, amended: no step of a live handle removes a name from the TOC, and
\* the only step that changes the EntryInfo held for a name is a
\* successful append under that same name, which replaces it.
EntriesChangeOnlyByNameReuse ==
  [][phase = "live" =>
       \A n \in DOMAIN toc.entries :
         /\ n \in DOMAIN toc'.entries
         /\ toc'.entries[n] # toc.entries[n] =>
              /\ nadds' = nadds + 1
              /\ last'.op \in Appends
              /\ last'.res = "Ok"
              /\ last'.name = n]_vars

\* C5 happens: the entry of the first append is still the one that append
\* recorded after an append under another name, a setter call and an
\* extraction have followed on the same handle.
EntryKeptReached ==
  /\ phase = "live"
  /\ nopens = 0
  /\ nadds = 2
  /\ nsets = 1
  /\ last.op = "extract_stream"
  /\ Cardinality(DOMAIN toc.entries) = 2
  /\ \E n \in DOMAIN toc.entries :
       /\ written[n].seq = 1
       /\ toc.entries[n].offset = written[n].before
       /\ toc.entries[n].create_ts.ts = 1

\* ------------------------------------------------------------ failed reads
\* One depot from create on, with source readers that may fail: appends
\* from readers that read through and from readers whose read returns an
\* error part-way, extractions, close and a reopen from the start.
NextFaults ==
  \/ create
  \/ /\ nadds < MaxAdds
     /\ \E in \in StreamInputs : add_named_sized_stream(in[1], in[2], in[3])
  \/ /\ nadds < MaxAdds
     /\ \E in \in StreamInputs, k \in 0..ScratchLen :
          add_named_sized_stream_read_error(in[1], in[2], in[3], k)
  \/ /\ nextracts < MaxExtracts
     /\ \E name \in Names : extract_stream(name)
  \/ close
  \/ /\ nopens < MaxOpens
     /\ \E m \in OpenModes, w \in BOOLEAN : (m # "Read" => w) /\ new(m, 0, w)

SpecFaults == Init /\ [][NextFaults]_vars

\* C11: an add_named_sized_stream or extract_stream call during which a
\* read of the source reader or of the decompressor returned an error
\* does not return success (and so a failed source read records no
\* entry).
FailedReadFailsTheCall ==
  (last.op \in {"add_named_sized_stream", "extract_stream"}
     /\ last.fault # "none") => last.res # "Ok"

\* ------------------------------------------------------------ reopening
\* A depot is created and appended to, then closed or dropped, and the
\* bytes are opened again, from their start or from where the depot
\* began.
NextReopen ==
  \/ create
  \/ /\ nadds < MaxAdds
     /\ \E in \in StreamInputs : add_named_sized_stream(in[1], in[2], in[3])
  \/ close
  \/ drop
  \/ /\ nopens < MaxOpens
     /\ \E m \in OpenModes, at \in {0, base}, w \in BOOLEAN :
          (m # "Read" => w) /\ new(m, at, w)

SpecReopen == Init /\ [][NextReopen]_vars

\* The 8 bytes at offset p are there and are not the magic.
OtherMagicAt(d, p) == CanRead(d, p, 8) /\ ReadAt(d, p, 8) # MAGIC

\* C12: DepotHandle::new, in any mode, on a byte handle whose 8 bytes at
\* its position are not DEPOTARC fails with InvalidData, leaves the byte
\* handle where it stood (no seek to a TOC offset) and produces no
\* handle.
MagicGate ==
  [][(last'.op = "new" /\ nopens' = nopens + 1
        /\ OtherMagicAt(disk, last'.before))
       => /\ last'.res = "InvalidData"
          /\ phase' = phase /\ phase' # "live"
          /\ pos' = pos
          /\ UNCHANGED <<header, toc, mode, header_offset>>]_vars

MagicGateReached ==
  /\ last.op = "new"
  /\ OtherMagicAt(disk, last.before)
  /\ last.res = "InvalidData"
  /\ phase = "closed"

\* The header at offset p parses and still carries the toc_offset that
\* create wrote.
UnfinalizedAt(d, p) ==
  LET h == HeaderDe(d, p) IN h.res = "Ok" /\ h.header.toc_offset = AllOnes

\* C13: DepotHandle::new on the bytes of a depot that was created,
\* appended to and dropped without close fails and returns no handle:
\* wherever the header read still carries toc_offset = 0xFFFFFFFFFFFFFFFF,
\* and wherever in those bytes the open starts.
UnfinalizedReject ==
  [][(last'.op = "new" /\ nopens' = nopens + 1
        /\ \/ UnfinalizedAt(disk, last'.before)
           \/ phase = "closed" /\ header.toc_offset = AllOnes)
       => /\ last'.res # "Ok"
          /\ phase' # "live"]_vars

UnfinalizedRejectReached ==
  /\ last.op = "new"
  /\ nadds > 0
  /\ UnfinalizedAt(disk, last.before)
  /\ last.res = "UnexpectedEof"
  /\ phase = "closed"

\* ------------------------------------------------------------ empty files
\* Files, zero-length ones among them, are added to a depot; the depot is
\* closed and opened again from its start; entries are extracted on the
\* creating handle and on the reopened one.
NextEmpty ==
  \/ create
  \/ /\ nadds < MaxAdds
     /\ \E in \in FileInputs : add_file(in[1], in[2])
  \/ /\ nextracts < MaxExtracts
     /\ \E name \in Names : extract_stream(name)
  \/ close
  \/ /\ nopens < MaxOpens
     /\ \E m \in OpenModes, w \in BOOLEAN : (m # "Read" => w) /\ new(m, 0, w)

SpecEmpty == Init /\ [][NextEmpty]_vars

\* The last append under `name` was of a zero-length file.
LastAppendEmpty(name) ==
  name \in DOMAIN written /\ written[name].data = <<>>

\* C14: a successful add_file of a zero-length file records an entry with
\* flags bit 0 set, size 0, stream_size 0 and hash 0xFFFFFFFFFFFFFFFF,
\* adds one to entry_count and leaves the TOC size as it was; and
\* extract_stream of that entry, on the creating handle or on a handle
\* reopened after close, returns Ok and writes no byte.
EmptyEntryContract ==
  [][/\ (last'.op = "add_file" /\ nadds' = nadds + 1 /\ last'.res = "Ok"
           /\ written'[last'.name].data = <<>>)
          => LET e == toc'.entries[last'.name] IN
               /\ e.flags % 2 = 1
               /\ e.size = 0
               /\ e.stream_size = 0
               /\ e.hash = AllOnes
               /\ toc'.entry_count = toc.entry_count + 1
               /\ toc'.size = toc.size
     /\ (last'.op = "extract_stream" /\ nextracts' = nextracts + 1
           /\ LastAppendEmpty(last'.name))
          => /\ last'.res = "Ok"
             /\ last'.out = <<>>]_vars

EmptyEntryContractReached ==
  /\ last.op = "extract_stream"
  /\ last.res = "Ok"
  /\ last.out = <<>>
  /\ LastAppendEmpty(last.name)
  /\ phase = "live"
  /\ header.toc_offset = written[last.name].after
  /\ toc.entries[last.name].flags = 1
  /\ toc.entries[last.name].hash = AllOnes

\* C15: a successful add_file of a zero-length file writes no byte to the
\* byte handle and leaves its position where it was.
EmptyAppendWritesNothing ==
  [][(last'.op = "add_file" /\ nadds' = nadds + 1 /\ last'.res = "Ok"
        /\ written'[last'.name].data = <<>>)
       => disk' = disk /\ pos' = pos]_vars

\* ------------------------------------------------------------ TOC order
\* streams(): the (name, entry) pairs in the map's iteration order.
streams ==
  LET keys == SortedKeys(DOMAIN toc.entries) IN
    [i \in 1..Len(keys) |-> <<keys[i], toc.entries[keys[i]]>>]

\* The names of the `left` records that lie in the bytes from offset p
\* on, in the order in which they lie there.
RECURSIVE RecordNames(_, _, _)
RecordNames(d, p, left) ==
  IF left = 0 \/ ~CanRead(d, p, 4) THEN <<>>
  ELSE LET n == I32Of(ReadAt(d, p, 4)) IN
    IF n < 0 \/ n > Len(d) \/ ~CanRead(d, p + 4, n + 56) THEN <<>>
    ELSE <<ReadAt(d, p + 4, n)>> \o RecordNames(d, p + 4 + n + 56, left - 1)

\* Each name is byte-wise below the next.
Ascending(names) ==
  \A i \in 1..(Len(names) - 1) : NameLess(names[i], names[i + 1])

\* C16: streams() yields the entries in ascending byte order of name, on
\* the creating handle and on a reopened one, and the TOC that close
\* writes holds one record per entry, in that same ascending order,
\* whatever the order of the appends.
TocInNameOrder ==
  /\ phase = "live"
       => /\ Ascending([i \in 1..Len(streams) |-> streams[i][1]])
          /\ {streams[i][1] : i \in 1..Len(streams)} = DOMAIN toc.entries
  /\ (last.op = "close" /\ last.res = "Ok")
       => LET names == RecordNames(disk, last.before + 20,
                                   Cardinality(DOMAIN toc.entries))
          IN /\ Len(names) = Cardinality(DOMAIN toc.entries)
             /\ {names[i] : i \in 1..Len(names)} = DOMAIN toc.entries
             /\ Ascending(names)

TocInNameOrderReached ==
  /\ last.op = "close"
  /\ last.res = "Ok"
  /\ DOMAIN toc.entries = {<<97>>, <<98>>}
  /\ written[<<98>>].seq < written[<<97>>].seq
  /\ RecordNames(disk, last.before + 20, 2) = <<(<<97>>), (<<98>>)>>

\* C17: when close has succeeded on a created handle after successful
\* appends, DepotHandle::new on the bytes from their start succeeds and
\* the TOC it parses equals the in-memory TOC that close serialised:
\* compression_level, entry_count, size, the names and every field of
\* every entry.
CloseRoundTripsToc ==
  [][(last.op = "close" /\ last.res = "Ok" /\ nopens = 0
        /\ last'.op = "new" /\ nopens' = nopens + 1 /\ last'.before = 0)
       => last'.res = "Ok" /\ toc' = toc]_vars

\* C18: after a successful add_named_sized_stream, whatever the
\* compression level, worker count, compression_frame_size and caller's
\* size, the frame at entry.offset decompresses to exactly entry.size
\* bytes and those bytes hash to entry.hash.
PayloadMatchesEntry ==
  (last.op = "add_named_sized_stream" /\ last.res = "Ok")
    => LET e == toc.entries[last.name]
           f == FrameAt(disk, e.offset)
       IN /\ f.ok /\ f.sumok
          /\ Len(f.data) = e.size
          /\ hash(f.data) = e.hash

\* ------------------------------------------------------------ timestamps
\* Signed 32-bit seconds and timezone offsets a TsWithTz may hold.
TsSeconds ==
  {0 - 1730000000, 0 - 86400, 0 - 1, 0, 1, 255, 86400, 16777216, 1730000000}
TsOffsets == {0 - 43200, 0 - 3600, 0 - 1, 0, 1, 3600, 50400}

\* A TsWithTz of any seconds and any offset is at hand; no depot yet.
InitTs ==
  /\ base = 0
  /\ disk = <<>>
  /\ pos = 0
  /\ writable = TRUE
  /\ phase = "blank"
  /\ mode = "ReadWrite"
  /\ header_offset = 0
  /\ header = [version |-> 1, toc_offset |-> AllOnes]
  /\ toc = DefaultToc
  /\ mt_threads = 1
  /\ compression_frame_size = FrameSizeDefault
  /\ last = Call("none", "Ok", <<>>)
  /\ written = EmptyMap
  /\ tz \in TsOffsets
  /\ clock \in TsSeconds
  /\ nadds = 0
  /\ nextracts = 0
  /\ nopens = 0
  /\ nsets = 0

\* EntryInfo::ser of a timestamp: write_u64::<BigEndian>(ts.to_u64());
\* last.out holds the 8 bytes written.
ser_ts ==
  /\ last.op # "to_u64"
  /\ last' = [Call("to_u64", "Ok", <<>>) EXCEPT !.out = to_u64(now)]
  /\ UNCHANGED <<disk, pos, writable, phase, mode, header_offset, header,
                 toc, mt_threads, compression_frame_size, written, base, tz,
                 clock, nadds, nextracts, nopens, nsets>>

\* EntryInfo::de of the 8 bytes just written: TsWithTz::from_u64;
\* last.before holds the seconds read back, last.after the offset.
de_ts ==
  /\ last.op = "to_u64"
  /\ LET t == from_u64(last.out) IN
       last' = [Call("from_u64", "Ok", <<>>)
                  EXCEPT !.out = last.out, !.before = t.ts, !.after = t.tz]
  /\ UNCHANGED <<disk, pos, writable, phase, mode, header_offset, header,
                 toc, mt_threads, compression_frame_size, written, base, tz,
                 clock, nadds, nextracts, nopens, nsets>>

NextTs == ser_ts \/ de_ts

SpecTs == InitTs /\ [][NextTs]_vars

\* C19: for all signed 32-bit seconds and offsets, negative ones too,
\* to_u64 is (seconds << 32) | (offset & 0xFFFFFFFF) modulo 2^64, that
\* is the 4 bytes of the seconds followed by the 4 bytes of the offset,
\* and from_u64 of it gives back the same seconds and the same offset.
TsPacksAndRoundTrips ==
  /\ last.op = "to_u64" => last.out = BE(clock, 4) \o BE(tz, 4)
  /\ last.op = "from_u64" => last.before = clock /\ last.after = tz

\* ------------------------------------------------------------ flag words
\* Flag words of an entry in a depot file written elsewhere: bit 0 is
\* the empty mark, bit 1 a bit this version gives no meaning to.
ForeignFlags == {0, 1, 2, 3}

\* The one entry, "a", of such a file: an empty entry when bit 0 is set,
\* otherwise the one-byte stream <<1>>, its frame lying after the header.
ForeignEntry(flags, ts) ==
  IF flags % 2 = 1
  THEN [offset |-> 18, size |-> 0, stream_size |-> 0, flags |-> flags,
        create_ts |-> ts, mod_ts |-> ts, hash |-> AllOnes]
  ELSE [offset |-> 18, size |-> 1, stream_size |-> 1, flags |-> flags,
        create_ts |-> ts, mod_ts |-> ts, hash |-> hash(<<1>>)]

ForeignPayload(flags) == IF flags % 2 = 1 THEN <<>> ELSE Compress(<<1>>)

ForeignToc(flags, ts) ==
  [compression_level |-> 0, entry_count |-> 1, size |-> 1 - (flags % 2),
   entries |-> MapInsert(EmptyMap, <<97>>, ForeignEntry(flags, ts))]

\* The byte handle holds a finalized depot file; no handle is open.
InitForeign ==
  /\ base = 0
  /\ tz \in TzOffsets
  /\ clock = 1
  /\ \E flags \in ForeignFlags :
       disk = HeaderSer([version |-> 1,
                         toc_offset |-> 18 + Len(ForeignPayload(flags))])
                \o ForeignPayload(flags)
                \o TocSer(ForeignToc(flags, [ts |-> 0, tz |-> 0]))
  /\ pos = 0
  /\ writable = TRUE
  /\ phase = "closed"
  /\ mode = "ReadWrite"
  /\ header_offset = 0
  /\ header = [version |-> 1, toc_offset |-> AllOnes]
  /\ toc = DefaultToc
  /\ mt_threads = 1
  /\ compression_frame_size = FrameSizeDefault
  /\ last = Call("none", "Ok", <<>>)
  /\ written = EmptyMap
  /\ nadds = 0
  /\ nextracts = 0
  /\ nopens = 0
  /\ nsets = 0

\* The file is opened; entries are extracted and streams appended on the
\* handle; the handle is closed.
NextForeign ==
  \/ /\ nopens < MaxOpens
     /\ \E m \in OpenModes, w \in BOOLEAN : (m # "Read" => w) /\ new(m, 0, w)
  \/ /\ nextracts < MaxExtracts
     /\ \E name \in Names : extract_stream(name)
  \/ /\ nadds < MaxAdds
     /\ \E in \in StreamInputs : add_named_sized_stream(in[1], in[2], in[3])
  \/ close

SpecForeign == InitForeign /\ [][NextForeign]_vars

\* C20: extract_stream of an entry whose flags have bit 0 set, whatever
\* its other bits, returns Ok at once: no seek or read moves the byte
\* handle and nothing is written to the writer.
EmptyByBitZero ==
  [][(last'.op = "extract_stream" /\ nextracts' = nextracts + 1
        /\ toc.entries[last'.name].flags % 2 = 1)
       => /\ last'.res = "Ok"
          /\ last'.out = <<>>
          /\ pos' = pos]_vars

\* ------------------------------------------------------------ finalize
\* C21: no operation on a handle opened in Read mode, close included,
\* writes to the byte handle: its bytes are the same after every step
\* the handle takes.
ReadHandleNeverWrites ==
  [][(phase = "live" /\ mode = "Read") => disk' = disk]_vars

\* The 18 bytes create wrote at offset p are still there, the all-ones
\* toc_offset among them.
DraftHeaderAt(d, p) ==
  /\ CanRead(d, p, 18)
  /\ ReadAt(d, p, 18) = HeaderSer([version |-> 1, toc_offset |-> AllOnes])

\* C22: from create on, through every sequence of appends, extractions,
\* setter calls and flushes on the created handle, the header at
\* header_offset stays as create wrote it, toc_offset 0xFFFFFFFFFFFFFFFF
\* included, and the handle never stands inside the header, so that no
\* payload write overwrites it.
DraftHeaderStays ==
  phase = "live"
    => /\ DraftHeaderAt(disk, header_offset)
       /\ header.toc_offset = AllOnes
       /\ pos >= header_offset + 18

DraftHeaderStaysReached ==
  /\ phase = "live"
  /\ last.op \in Appends
  /\ last.res = "Ok"
  /\ nadds = 2
  /\ nextracts = 1
  /\ nsets = 1
  /\ DraftHeaderAt(disk, header_offset)

\* C23: once close has succeeded, on a created handle or on an opened
\* one, with or without appends, the toc_offset that finalize put into
\* the header and wrote out is at least header_offset + 18 and below the
\* end of the file, and the bytes from toc_offset to the end of the file
\* are exactly the serialised TOC.
TocAtEndOfFile ==
  (last.op = "close" /\ last.res = "Ok")
    => /\ header.toc_offset >= header_offset + 18
       /\ header.toc_offset < Len(disk)
       /\ ReadAt(disk, header.toc_offset, Len(disk) - header.toc_offset)
            = TocSer(toc)
       /\ HeaderDe(disk, HeaderRewriteAt(header_offset))
            = [res |-> "Ok", header |-> header]

TocAtEndOfFileReached ==
  /\ last.op = "close"
  /\ last.res = "Ok"
  /\ mode = "Write"
  /\ \E m \in DOMAIN written, n \in DOMAIN written :
       /\ written[m].seq = 1
       /\ written[n].seq = 2
       /\ written[n].before > written[m].after
  /\ header.toc_offset = Len(disk) - Len(TocSer(toc))

\* ------------------------------------------------------------ versions
\* The format version this implementation writes.
SupportedVersion == 1

\* Version words of the header of a depot file written elsewhere.
ForeignVersions == {0, 1, 2, 65535}

\* The byte handle holds a finalized depot file with one one-byte entry
\* and a header of some version; no handle is open.
InitVersions ==
  /\ base = 0
  /\ tz \in TzOffsets
  /\ clock = 1
  /\ \E version \in ForeignVersions :
       disk = HeaderSer([version |-> version,
                         toc_offset |-> 18 + Len(ForeignPayload(0))])
                \o ForeignPayload(0)
                \o TocSer(ForeignToc(0, [ts |-> 0, tz |-> 0]))
  /\ pos = 0
  /\ writable = TRUE
  /\ phase = "closed"
  /\ mode = "ReadWrite"
  /\ header_offset = 0
  /\ header = [version |-> 1, toc_offset |-> AllOnes]
  /\ toc = DefaultToc
  /\ mt_threads = 1
  /\ compression_frame_size = FrameSizeDefault
  /\ last = Call("none", "Ok", <<>>)
  /\ written = EmptyMap
  /\ nadds = 0
  /\ nextracts = 0
  /\ nopens = 0
  /\ nsets = 0

SpecVersions == InitVersions /\ [][NextForeign]_vars

\* C24: when DepotHandle::new has succeeded, the 8 bytes at the header's
\* offset are the magic and the version of the parsed header is at most
\* the supported one.
OpenedVersionSupported ==
  (last.op = "new" /\ last.res = "Ok")
    => /\ ReadAt(disk, header_offset, 8) = MAGIC
       /\ header.version <= SupportedVersion

\* ------------------------------------------------------------ failed appends
\* A depot is created, appended to and closed, and opened again in any
\* mode on a byte handle that may refuse writes; appends on either handle
\* succeed or fail: paths that are no files, Read mode, writes refused,
\* a source that cannot be rewound.
NextAppendErrors ==
  \/ create
  \/ /\ nadds < MaxAdds
     /\ \E in \in StreamInputs : add_named_sized_stream(in[1], in[2], in[3])
  \/ /\ nadds < MaxAdds
     /\ \E in \in StreamInputs :
          add_named_sized_stream_seek_error(in[1], in[2], in[3])
  \/ /\ nadds < MaxAdds
     /\ \E in \in FileInputs : add_file(in[1], in[2])
  \/ /\ nadds < MaxAdds
     /\ \E kind \in PathKinds : add_file_rejected(<<100>>, kind)
  \/ nopens = 0 /\ close
  \/ /\ nopens < MaxOpens
     /\ phase = "closed"
     /\ \E m \in OpenModes, w \in BOOLEAN : (m # "Read" => w) /\ new(m, 0, w)

SpecAppendErrors == Init /\ [][NextAppendErrors]_vars

\* C25: a call of add_file or add_named_sized_stream that returns an
\* error leaves the in-memory TOC as it was: entries, entry_count and
\* size.
FailedAppendLeavesToc ==
  [][(nadds' = nadds + 1 /\ last'.op \in Appends /\ last'.res # "Ok")
       => toc' = toc]_vars

FailedAppendLeavesTocReached ==
  /\ last.op = "add_named_sized_stream"
  /\ last.res = "Other"
  /\ last.fault = "rewind"
  /\ last.after > last.before
  /\ toc.entry_count = 1
  /\ last.name \notin DOMAIN toc.entries

\* ------------------------------------------------------------ growing
\* Opens over one run of the growth specification.
MaxReopens == 2

\* A depot is created, given entries under new names and closed; it is
\* opened again for writing from its start, given more entries under new
\* names and closed again; after the last open its entries are
\* extracted.
NextGrow ==
  \/ create
  \/ /\ nadds < MaxAdds
     /\ nopens < MaxReopens
     /\ \E in \in StreamInputs :
          /\ in[1] \notin DOMAIN toc.entries
          /\ add_named_sized_stream(in[1], in[2], in[3])
  \/ /\ nadds < MaxAdds
     /\ nopens < MaxReopens
     /\ \E in \in FileInputs :
          /\ in[1] \notin DOMAIN toc.entries
          /\ add_file(in[1], in[2])
  \/ nopens < MaxReopens /\ close
  \/ /\ nopens < MaxReopens
     /\ phase = "closed"
     /\ \E m \in {"Write", "ReadWrite"} : new(m, 0, TRUE)
  \/ /\ nextracts < MaxExtracts
     /\ nopens = MaxReopens
     /\ \E name \in DOMAIN toc.entries : extract_stream(name)

SpecGrow == Init /\ [][NextGrow]_vars

\* A handle that DepotHandle::new opened for writing on a finalized depot.
OpenedForWriting ==
  /\ phase = "live"
  /\ header.toc_offset # AllOnes
  /\ mode \in {"Write", "ReadWrite"}

\* C26: on a finalized depot opened in Write or ReadWrite mode, appends
\* under new names and the close after them keep every entry that was
\* there at open, with its EntryInfo and its payload bytes: an append
\* writes at the end of the file, behind the old TOC, and changes no
\* older byte and no older entry; close writes the new TOC at the end of
\* the file, changes no payload byte, and the TOC it writes reads back
\* the old entries as they were; and on the depot opened once more every
\* entry, old or new, extracts successfully to the bytes appended.
GrowKeepsOldEntries ==
  [][/\ (OpenedForWriting /\ nadds' = nadds + 1 /\ last'.res = "Ok")
          => /\ \A n \in DOMAIN toc.entries :
                  /\ n \in DOMAIN toc'.entries
                  /\ toc'.entries[n] = toc.entries[n]
             /\ SubSeq(disk', 1, Len(disk)) = disk
             /\ last'.before >= Len(disk)
     /\ (OpenedForWriting /\ last'.op = "close" /\ phase' = "closed")
          => /\ last'.res = "Ok"
             /\ header'.toc_offset = Len(disk)
             /\ SubSeq(disk', 19, Len(disk)) = SubSeq(disk, 19, Len(disk))
             /\ LET t == TocDe(disk', Len(disk)) IN
                  /\ t.ok
                  /\ \A n \in DOMAIN toc.entries :
                       written[n].after <= header.toc_offset
                         => /\ n \in DOMAIN t.toc.entries
                            /\ t.toc.entries[n] = toc.entries[n]
     /\ (nopens = MaxReopens /\ nextracts' = nextracts + 1)
          => /\ last'.res = "Ok"
             /\ last'.out = written[last'.name].data]_vars

====
